---- MODULE Spec2Model ----
(***************************************************************************)
(* State-machine model of the LSAT Study Companion's streak tracker        *)
(* (streak.js), Pomodoro timer (timer.js) and localStorage adapter         *)
(* (storage.js).                                                           *)
(*                                                                         *)
(* Time is the wall clock in milliseconds of local time; instant 0 is a    *)
(* local midnight and every local day has MsPerDay milliseconds.  An ISO   *)
(* timestamp (Date.prototype.toISOString) is modelled by the instant it    *)
(* denotes, a date string (Date.prototype.toDateString) by the number of   *)
(* the local day.                                                          *)
(***************************************************************************)
EXTENDS Integers, Sequences, FiniteSets, TLC

\* ------------------------------------------------------------------------
\* Bounds of the model
\* ------------------------------------------------------------------------
MaxDay == 4
MaxElapse == 3
MaxSessionElapse == 4
MaxConfigElapse == 2
MaxConfigCompletions == 2
MaxCorruptElapse == 2
MaxQuotaElapse == 1
MaxQuotaMilestones == 1
MaxTabSessions == 3
MaxMessageDay == 3
MaxQuestionDay == 2
MaxCountdownElapse == 5
MaxLiveCompletions == 2

\* ------------------------------------------------------------------------
\* Program constants
\* ------------------------------------------------------------------------
MsPerDay == 86400000
MsPerSecond == 1000
SecondsPerMinute == 60
TickPeriod == 1000
DefaultWork == 1500
DefaultBreak == 300

NoTime == -1

STREAK_DATA == "lsat_streak_data"
TIMER_DATA == "lsat_timer_data"
ANSWERED_QUESTIONS == "lsat_answered_questions"
DISMISSED_MESSAGES == "lsat_dismissed_messages"
KEYS == {STREAK_DATA, TIMER_DATA, ANSWERED_QUESTIONS, DISMISSED_MESSAGES}

\* new Date(2024, 0, 1): instant 0 of the model
EpochStart == 0

MsPerHour == MsPerDay \div 24

MsPerMinute == MsPerSecond * SecondsPerMinute

milestones == {3, 7, 14, 30, 50, 100}

Max(a, b) == IF a > b THEN a ELSE b

Abs(a) == IF a < 0 THEN -a ELSE a

\* the remainder operator a % n of the source for n > 0: the sign of a
Remainder(a, n) == IF a >= 0 THEN a % n ELSE -((-a) % n)

\* Math.ceil(a / b) for b > 0 and any integer a
CeilDiv(a, b) == -((-a) \div b)

\* an item whose text JSON.parse rejects
Unparseable == <<"{", "SyntaxError">>

\* the value of the item text "null"
Null == [null |-> TRUE]

\* ------------------------------------------------------------------------
\* Inputs
\* ------------------------------------------------------------------------
\* clock advances between two events of the streak tracker
DayJumps == {MsPerDay \div 4, MsPerDay, 2 * MsPerDay}

\* clock advances between two events of the timer
TimerJumps == {500, 1000, 60000}

\* clock advances between two events of timed sessions on several days
SessionJumps == {60000, MsPerDay}

\* timerDurations of config.json: <<>> when the field is missing
Configs == {<<>>, <<1, 1>>}

\* timerDurations of a config.json whose values nothing has validated
AnyConfigs == Configs \cup {<<0, 1>>, <<1, 0>>, <<-1, 1>>}

\* clock advances between two events of a timer configured at page load
ConfigJumps == {1000, 60000}

\* values parsed from the two duration inputs of the settings form
FormInputs == {<<0, 1>>, <<1, 0>>, <<2, 1>>, <<50, 10>>}

\* clock advances between two events of a page whose store holds a
\* malformed item: a configured and a default work session
CorruptJumps == {60000, 1500000}

\* clock advances between two events of a page over a failing store
QuotaJumps == {60000, MsPerDay}

\* behaviours of the underlying store: it works, setItem throws, getItem and
\* setItem throw
StoreModes == {"ok", "full", "down"}

\* item texts that are not the serialisation of a record
MalformedItems == {Unparseable, <<Null>>}

Modes == {"work", "break"}

\* clock advances between two page loads that check the personal messages
MessageJumps == {MsPerDay \div 2, MsPerDay}

\* clock advances between two operations of the daily questions
QuestionJumps == {MsPerHour \div 2, MsPerDay}

\* the clock of the first load of the daily questions: the day before EpochStart
QuestionStart == EpochStart - MsPerDay

\* clock advances between two updates of the countdown
CountdownJumps == {MsPerSecond, MsPerDay}

\* clock advances while a countdown of one minute runs to its end
LiveJumps == {5000, 30000}

\* prevQuestion and nextQuestion
Directions == {-1, 1}

\* pages open on the same store
Tabs == {1, 2}

\* lsatDate of config.json
LsatDate == 2 * MsPerDay

\* personalMessages of config.json: none by default
NoMessages == <<>>

PersonalMessages ==
    << [trigger |-> "streak", value |-> 1],
       [trigger |-> "date", value |-> 0],
       [trigger |-> "daysUntil", value |-> 1],
       [trigger |-> "streak", value |-> 2] >>

\* dailyQuestions of config.json: none by default
NoQuestions == <<>>

DailyQuestions == << [id |-> 11], [id |-> 12] >>

VARIABLES
    now,            \* wall clock, ms
    elapses,        \* number of clock advances so far
    localStorage,   \* key -> <<>> (no item) or <<parsed JSON value>>
    streakData,     \* Streak.data: <<>> (null) or <<record>>
    streakEvents,   \* streakMilestone events dispatched, in order
    lastBranch,     \* branch taken by the latest checkStreak
    visitDays,      \* history: local days with a page load since the record was fresh
    reconciledDay,  \* history: local day of the latest checkStreak, NoTime if none
    timer,          \* Timer.state
    durations,      \* Timer.durations, seconds
    timerEvents,    \* timerComplete events dispatched (mode of each), in order
    completes,      \* history: complete() calls since the latest start() that entered Running
    runMs,          \* history: ms spent Running since timeRemaining was last armed
    lastOp,         \* history: the latest operation that changed Timer.state or durations
    dispatched,     \* history: the timer statistics item in the store at the latest dispatch
    store,          \* the underlying store: "ok", "full" (writes throw), "down" (all throw)
    page,           \* listeners attached by the latest App.init
    errors,         \* operations out of which an exception has propagated
    banner,         \* the personal message banner: hidden flag and dataset.messageId
    question,       \* Questions: allQuestions, currentQuestionIndex, answer section
    tabs,           \* per tab: position inside the statistics update of complete()
    sessionsDone,   \* history: work sessions whose statistics update has finished
    staleWrites,    \* history: writes of a record computed from an item since replaced
    countdown       \* Countdown: targetDate, interval, the display, the live callback

streakVars == <<streakData, streakEvents, lastBranch, visitDays, reconciledDay>>

timerVars == <<timer, durations, timerEvents, completes, runMs, lastOp, dispatched>>

envVars == <<store, page, errors>>

appVars == <<banner, question>>

tabVars == <<tabs, sessionsDone, staleWrites>>

vars == <<now, elapses, localStorage, streakVars, timerVars, envVars, appVars, tabVars,
          countdown>>

\* ------------------------------------------------------------------------
\* storage.js
\* ------------------------------------------------------------------------
\* get that reads the item although getItem throws
StorageGet_IgnoresFailure(ls, key, defaultValue) ==
    IF ls[key] = <<>> THEN defaultValue
    ELSE IF ls[key] = Unparseable THEN defaultValue
    ELSE ls[key][1]

\* Storage.get: the default when getItem throws, when there is no item and
\* when JSON.parse throws; the parsed item otherwise
StorageGet(ls, key, defaultValue) ==
    IF store = "down" THEN defaultValue
    ELSE IF ls[key] = <<>> THEN defaultValue
    ELSE IF ls[key] = Unparseable THEN defaultValue
    ELSE ls[key][1]

\* set that stores the item although setItem throws
StorageSet_IgnoresFailure(ls, key, value) == [ls EXCEPT ![key] = <<value>>]

\* Storage.set: the store is left as it was when setItem throws
StorageSet(ls, key, value) ==
    IF store = "ok" THEN [ls EXCEPT ![key] = <<value>>] ELSE ls

DefaultStreakData(t) ==
    [currentStreak |-> 0, longestStreak |-> 0, totalDays |-> 0,
     lastVisit |-> NoTime, startDate |-> t]

getStreakData(ls, t) == StorageGet(ls, STREAK_DATA, DefaultStreakData(t))

setStreakData(ls, data) == StorageSet(ls, STREAK_DATA, data)

\* new Date(t).toDateString(): the local calendar day of instant t
toDateString(t) == t \div MsPerDay

\* new Date(dateString) for a toDateString() value: local midnight of that day
parseDateString(day) == day * MsPerDay

getTodayString(t) == toDateString(t)

isToday(dateString, t) ==
    IF dateString = NoTime THEN FALSE
    ELSE toDateString(dateString) = getTodayString(t)

\* Storage.getDaysBetween on two instants
getDaysBetween(d1, d2) == Abs(d2 - d1) \div MsPerDay

\* ------------------------------------------------------------------------
\* streak.js
\* ------------------------------------------------------------------------
\* startStreak that leaves totalDays as loaded
startStreak_KeepsTotalDays(d, t) ==
    [d EXCEPT !.currentStreak = 1,
              !.longestStreak = Max(1, d.longestStreak),
              !.lastVisit = t]

startStreak(d, t) ==
    [d EXCEPT !.currentStreak = 1,
              !.longestStreak = Max(1, d.longestStreak),
              !.totalDays = 1,
              !.lastVisit = t]

\* incrementStreak that does not stamp lastVisit
incrementStreak_KeepsLastVisit(d, t) ==
    LET cs == d.currentStreak + 1 IN
    [d EXCEPT !.currentStreak = cs,
              !.totalDays = d.totalDays + 1,
              !.longestStreak = IF cs > d.longestStreak THEN cs ELSE d.longestStreak]

incrementStreak(d, t) ==
    LET cs == d.currentStreak + 1 IN
    [d EXCEPT !.currentStreak = cs,
              !.totalDays = d.totalDays + 1,
              !.lastVisit = t,
              !.longestStreak = IF cs > d.longestStreak THEN cs ELSE d.longestStreak]

\* resetStreak that also resets longestStreak
resetStreak_ResetsLongest(d, t) ==
    [d EXCEPT !.currentStreak = 1,
              !.longestStreak = 0,
              !.totalDays = d.totalDays + 1,
              !.lastVisit = t]

resetStreak(d, t) ==
    [d EXCEPT !.currentStreak = 1,
              !.totalDays = d.totalDays + 1,
              !.lastVisit = t]

\* celebrateMilestone that dispatches for every streak value
celebrateMilestone_Always(events, streak) == Append(events, streak)

\* the streak value celebrateMilestone is called with dispatches an event
\* iff it is a milestone
celebrateMilestone(events, streak) ==
    IF streak \in milestones THEN Append(events, streak) ELSE events

\* the day distance checkStreak computes: from lastVisit to the parsed
\* value of today's date string
daysSinceLastVisit(d, t) ==
    getDaysBetween(d.lastVisit, parseDateString(getTodayString(t)))

\* the branch of checkStreak taken for record d at time t; reading lastVisit
\* of null throws
checkStreakBranch(d, t) ==
    IF d = Null THEN "throw"
    ELSE IF d.lastVisit = NoTime THEN "start"
    ELSE IF isToday(d.lastVisit, t) THEN "today"
    ELSE IF daysSinceLastVisit(d, t) = 1 THEN "increment"
    ELSE IF daysSinceLastVisit(d, t) > 1 THEN "reset"
    ELSE "none"

\* Streak.data after checkStreak
checkStreakData(d, t) ==
    LET b == checkStreakBranch(d, t) IN
    IF b = "start" THEN startStreak(d, t)
    ELSE IF b = "increment" THEN incrementStreak(d, t)
    ELSE IF b = "reset" THEN resetStreak(d, t)
    ELSE d

\* Streak.init: loadStreak, checkStreak (saveStreak and celebrateMilestone
\* inside the branch taken)
StreakInit ==
    LET loaded == getStreakData(localStorage, now)
        b == checkStreakBranch(loaded, now)
        d == checkStreakData(loaded, now)
    IN  /\ streakData' = IF loaded = Null THEN <<>> ELSE <<d>>
        /\ localStorage' = IF b \in {"start", "increment", "reset"}
                           THEN setStreakData(localStorage, d)
                           ELSE localStorage
        /\ streakEvents' = IF b \in {"start", "increment"}
                           THEN celebrateMilestone(streakEvents, d.currentStreak)
                           ELSE streakEvents
        /\ lastBranch' = b
        /\ visitDays' = visitDays \cup {toDateString(now)}
        /\ reconciledDay' = toDateString(now)

\* Streak.resetAll
resetAll ==
    /\ streakData /= <<>>
    /\ streakData' = <<DefaultStreakData(now)>>
    /\ localStorage' = setStreakData(localStorage, DefaultStreakData(now))
    /\ visitDays' = {}
    /\ reconciledDay' = NoTime
    /\ UNCHANGED <<streakEvents, lastBranch>>

\* Streak.isStreakAtRisk at time t
isStreakAtRisk(d, t) ==
    IF d.lastVisit = NoTime THEN FALSE
    ELSE getDaysBetween(d.lastVisit, t) = 0

\* ------------------------------------------------------------------------
\* storage.js, timer statistics
\* ------------------------------------------------------------------------
DefaultTimerData ==
    [sessionsToday |-> 0, totalSessions |-> 0, totalMinutes |-> 0,
     lastSession |-> NoTime]

getTimerData(ls) == StorageGet(ls, TIMER_DATA, DefaultTimerData)

setTimerData(ls, data) == StorageSet(ls, TIMER_DATA, data)

\* a session count that leaves totalSessions as read
sessionCounted_KeepsTotal(data, t) ==
    LET today == toDateString(t)
        sessions == IF data.lastSession /= today THEN 0 ELSE data.sessionsToday
    IN  [data EXCEPT !.sessionsToday = sessions + 1,
                     !.lastSession = today]

\* Storage.incrementSession: the record it writes, from the record it read
sessionCounted(data, t) ==
    LET today == toDateString(t)
        sessions == IF data.lastSession /= today THEN 0 ELSE data.sessionsToday
    IN  [data EXCEPT !.sessionsToday = sessions + 1,
                     !.totalSessions = data.totalSessions + 1,
                     !.lastSession = today]

\* incrementSession without the reset of the daily count
incrementSession_NoDailyReset(ls, t) ==
    LET data == StorageGet(ls, TIMER_DATA, DefaultTimerData)
        today == toDateString(t)
    IN  StorageSet(ls, TIMER_DATA,
                   [data EXCEPT !.sessionsToday = data.sessionsToday + 1,
                                !.totalSessions = data.totalSessions + 1,
                                !.lastSession = today])

\* Storage.incrementSession at time t
incrementSession(ls, t) == setTimerData(ls, sessionCounted(getTimerData(ls), t))

\* Storage.addStudyTime: the record it writes, from the record it read
studyTimeAdded(data, minutes) ==
    [data EXCEPT !.totalMinutes = data.totalMinutes + minutes]

\* Storage.addStudyTime
addStudyTime(ls, minutes) ==
    setTimerData(ls, studyTimeAdded(getTimerData(ls), minutes))

\* ------------------------------------------------------------------------
\* timer.js
\* ------------------------------------------------------------------------
\* Timer.state as constructed; interval is the earliest instant at which the
\* pending setInterval callback may run, NoTime when none is pending; live
\* counts the setInterval callbacks created and not cleared
InitialTimer ==
    [isRunning |-> FALSE, isPaused |-> FALSE, mode |-> "work",
     timeRemaining |-> 25 * 60, interval |-> NoTime,
     startTime |-> NoTime, endTime |-> NoTime, live |-> 0]

\* the handle is forgotten and its callback left live
clearTimerInterval_KeepsCallback(s) ==
    IF s.interval = NoTime THEN s
    ELSE [s EXCEPT !.interval = NoTime]

\* clearInterval(this.state.interval) under if (this.state.interval)
clearTimerInterval(s) ==
    IF s.interval = NoTime THEN s
    ELSE [s EXCEPT !.interval = NoTime, !.live = s.live - 1]

InitialDurations == [work |-> DefaultWork, break |-> DefaultBreak]

\* a null operand of an arithmetic operator converts to 0
ToNumber(x) == IF x = NoTime THEN 0 ELSE x

\* start without the early return for a Running timer
start_NoRunningGuard(s, t) ==
    [s EXCEPT !.isRunning = TRUE,
              !.isPaused = FALSE,
              !.startTime = IF s.startTime = NoTime THEN t ELSE s.startTime,
              !.endTime = t + s.timeRemaining * MsPerSecond,
              !.interval = t + TickPeriod,
              !.live = s.live + 1]

\* start that resumes towards the end time anchored before the pause
start_KeepsEndTime(s, t) ==
    IF s.isRunning THEN s
    ELSE [s EXCEPT !.isRunning = TRUE,
                   !.isPaused = FALSE,
                   !.startTime = IF s.startTime = NoTime THEN t ELSE s.startTime,
                   !.endTime = IF s.endTime = NoTime
                               THEN t + s.timeRemaining * MsPerSecond
                               ELSE s.endTime,
                   !.interval = t + TickPeriod,
                   !.live = s.live + 1]

\* Timer.start on state s at time t
start(s, t) ==
    IF s.isRunning THEN s
    ELSE [s EXCEPT !.isRunning = TRUE,
                   !.isPaused = FALSE,
                   !.startTime = IF s.startTime = NoTime THEN t ELSE s.startTime,
                   !.endTime = t + s.timeRemaining * MsPerSecond,
                   !.interval = t + TickPeriod,
                   !.live = s.live + 1]

\* pause that does not mark the timer paused
pause_SkipsPausedFlag(s) ==
    IF ~s.isRunning THEN s
    ELSE clearTimerInterval([s EXCEPT !.isRunning = FALSE])

\* pause that leaves the interval callback pending
pause_KeepsInterval(s) ==
    IF ~s.isRunning THEN s
    ELSE [s EXCEPT !.isRunning = FALSE, !.isPaused = TRUE]

\* Timer.pause
pause(s) ==
    IF ~s.isRunning THEN s
    ELSE clearTimerInterval([s EXCEPT !.isRunning = FALSE, !.isPaused = TRUE])

\* reset that always re-arms the work duration
reset_WorkDuration(s, dur) ==
    [pause(s) EXCEPT !.timeRemaining = dur.work,
                     !.startTime = NoTime,
                     !.endTime = NoTime,
                     !.isPaused = FALSE]

\* reset that leaves the paused flag as it is
reset_KeepsPausedFlag(s, dur) ==
    [pause(s) EXCEPT !.timeRemaining = dur[s.mode],
                     !.startTime = NoTime,
                     !.endTime = NoTime]

\* Timer.reset
reset(s, dur) ==
    [pause(s) EXCEPT !.timeRemaining = dur[s.mode],
                     !.startTime = NoTime,
                     !.endTime = NoTime,
                     !.isPaused = FALSE]

\* changeMode that re-arms the duration of the mode it leaves
changeMode_OldDuration(s, dur, mode) ==
    [pause(s) EXCEPT !.mode = mode,
                     !.timeRemaining = dur[s.mode],
                     !.startTime = NoTime,
                     !.endTime = NoTime,
                     !.isPaused = FALSE]

\* changeMode that leaves the end time anchored
changeMode_KeepsEndTime(s, dur, mode) ==
    [pause(s) EXCEPT !.mode = mode,
                     !.timeRemaining = dur[mode],
                     !.startTime = NoTime,
                     !.isPaused = FALSE]

\* Timer.changeMode
changeMode(s, dur, mode) ==
    [pause(s) EXCEPT !.mode = mode,
                     !.timeRemaining = dur[mode],
                     !.startTime = NoTime,
                     !.endTime = NoTime,
                     !.isPaused = FALSE]

\* the tick computation with the quotient rounded down
timeLeft_Floor(s, t) == Max(0, (ToNumber(s.endTime) - t) \div MsPerSecond)

\* the value tick computes: Math.max(0, Math.ceil((endTime - now) / 1000))
timeLeft(s, t) == Max(0, CeilDiv(ToNumber(s.endTime) - t, MsPerSecond))

\* a mode switch that stays in the mode that finished
OtherMode_Same(mode) == mode

OtherMode(mode) == IF mode = "work" THEN "break" ELSE "work"

\* complete that re-arms the mode that finished
complete_KeepsMode(s, dur) == changeMode(pause(s), dur, s.mode)

\* Timer.complete: the timer state it leaves
complete(s, dur) == changeMode(pause(s), dur, OtherMode(s.mode))

\* complete that counts a session in either mode
completeStorage_AnyMode(s, dur, ls, t) ==
    addStudyTime(incrementSession(ls, t), dur.work \div SecondsPerMinute)

\* Timer.complete: the store it leaves
completeStorage(s, dur, ls, t) ==
    IF s.mode = "work"
    THEN addStudyTime(incrementSession(ls, t), dur.work \div SecondsPerMinute)
    ELSE ls

\* a completion that dispatches its event before the statistics are updated
storeAtDispatch_BeforeStats(s, dur, ls, t) == ls

\* Timer.complete: the store the listeners of timerComplete find, the
\* statistics of a work session being updated before showCompletionMessage
storeAtDispatch(s, dur, ls, t) == completeStorage(s, dur, ls, t)

\* Timer.tick on the current state: recompute timeRemaining, complete at 0;
\* a periodic callback that ran is scheduled again one period later.
\* complete() of a work session stops after pause() when incrementSession
\* reads null: the exception leaves through tick
tick(periodic) ==
    LET s0 == IF periodic THEN [timer EXCEPT !.interval = now + TickPeriod] ELSE timer
        s1 == [s0 EXCEPT !.timeRemaining = timeLeft(s0, now)]
    IN  IF s1.timeRemaining <= 0
        THEN IF s1.mode = "work" /\ getTimerData(localStorage) = Null
             THEN /\ timer' = pause(s1)
                  /\ errors' = errors \cup {"Timer.complete"}
                  /\ completes' = completes + 1
                  /\ lastOp' = "complete"
                  /\ UNCHANGED <<localStorage, timerEvents, dispatched, runMs>>
             ELSE /\ timer' = complete(s1, durations)
                  /\ localStorage' = completeStorage(s1, durations, localStorage, now)
                  /\ timerEvents' = Append(timerEvents, s1.mode)
                  /\ dispatched' = storeAtDispatch(s1, durations, localStorage, now)[TIMER_DATA]
                  /\ completes' = completes + 1
                  /\ runMs' = 0
                  /\ lastOp' = "complete"
                  /\ errors' = errors
        ELSE /\ timer' = s1
             /\ lastOp' = IF s1 = timer THEN lastOp ELSE "tick"
             /\ UNCHANGED <<localStorage, timerEvents, dispatched, completes, runMs, errors>>

\* setDurations that stores the minutes as they are
setDurationsValue_NoConversion(workMinutes, breakMinutes) ==
    [work |-> workMinutes, break |-> breakMinutes]

\* Timer.setDurations: the durations and the timer state it leaves
setDurationsValue(workMinutes, breakMinutes) ==
    [work |-> workMinutes * SecondsPerMinute, break |-> breakMinutes * SecondsPerMinute]

\* ------------------------------------------------------------------------
\* storage.js and countdown.js, personal messages
\* ------------------------------------------------------------------------
\* Array.prototype.includes
Includes(list, x) == \E i \in 1..Len(list) : list[i] = x

getDismissedMessages(ls) == StorageGet(ls, DISMISSED_MESSAGES, <<>>)

\* Storage.dismissMessage
dismissMessage(ls, id) ==
    LET dismissed == getDismissedMessages(ls) IN
    IF ~Includes(dismissed, id)
    THEN StorageSet(ls, DISMISSED_MESSAGES, Append(dismissed, id))
    ELSE ls

\* isMessageDismissed that finds no id in the list
isMessageDismissed_Never(ls, id) == FALSE

\* Storage.isMessageDismissed
isMessageDismissed(ls, id) == Includes(getDismissedMessages(ls), id)

\* the template string `${message.trigger}_${message.value}`
messageId(message) == message.trigger \o "_" \o ToString(message.value)

\* Countdown.getDaysUntil at time t
getDaysUntil(t) == CeilDiv(LsatDate - t, MsPerDay)

\* App.shouldShowMessage with the store ls, the current streak and the time t
shouldShowMessage(message, ls, streak, t) ==
    IF isMessageDismissed(ls, messageId(message)) THEN FALSE
    ELSE CASE message.trigger = "daysUntil" -> getDaysUntil(t) = message.value
           [] message.trigger = "streak" -> streak = message.value
           [] message.trigger = "date" -> toDateString(t) = toDateString(message.value)
           [] OTHER -> FALSE

\* the banner as constructed with the document
InitialBanner == [hidden |-> TRUE, messageId |-> ""]

\* App.checkPersonalMessages: showPersonalMessage for the first message of
\* the list that should be shown
checkPersonalMessages(messages, ls, streak, t, b) ==
    LET shown == {i \in 1..Len(messages) : shouldShowMessage(messages[i], ls, streak, t)}
    IN  IF shown = {} THEN b
        ELSE LET first == CHOOSE i \in shown : \A j \in shown : i <= j
             IN  [hidden |-> FALSE, messageId |-> messageId(messages[first])]

\* ------------------------------------------------------------------------
\* countdown.js, Countdown
\* ------------------------------------------------------------------------
\* Countdown as constructed with the document; scheduled tells whether the
\* callback of setInterval is live
InitialCountdown ==
    [targetDate |-> NoTime, interval |-> NoTime, scheduled |-> FALSE,
     days |-> "", hours |-> "", minutes |-> "", seconds |-> ""]

\* Countdown.formatNumber
formatNumber(num) == IF num < 10 THEN "0" \o ToString(num) ELSE ToString(num)

\* Countdown.displayCompleted
displayCompleted(c) ==
    [c EXCEPT !.days = "00", !.hours = "00", !.minutes = "00", !.seconds = "00"]

\* clearInterval(this.interval): no effect on a handle that is null
clearCountdownInterval(c) ==
    IF c.interval = NoTime THEN c ELSE [c EXCEPT !.scheduled = FALSE]

\* Countdown.update at time t
countdownUpdate(c, t) ==
    LET timeDiff == c.targetDate - t IN
    IF timeDiff <= 0 THEN clearCountdownInterval(displayCompleted(c))
    ELSE [c EXCEPT !.days = formatNumber(timeDiff \div MsPerDay),
                   !.hours = formatNumber((timeDiff % MsPerDay) \div MsPerHour),
                   !.minutes = formatNumber((timeDiff % MsPerHour) \div MsPerMinute),
                   !.seconds = formatNumber((timeDiff % MsPerMinute) \div MsPerSecond)]

\* Countdown.init at time t: the first update runs before the interval is set
countdownInit(lsatDate, t) ==
    LET updated == countdownUpdate([InitialCountdown EXCEPT !.targetDate = lsatDate], t)
    IN  [updated EXCEPT !.interval = 1, !.scheduled = TRUE]

\* ------------------------------------------------------------------------
\* storage.js and questions.js, daily questions
\* ------------------------------------------------------------------------
\* the answered questions: a function from question ids to timestamps
getAnsweredQuestions(ls) == StorageGet(ls, ANSWERED_QUESTIONS, <<>>)

\* Storage.markQuestionAnswered at time t
markQuestionAnswered(ls, questionId, t) ==
    StorageSet(ls, ANSWERED_QUESTIONS, (questionId :> t) @@ getAnsweredQuestions(ls))

\* Questions as constructed with the document
\* currentQuestion is <<>> (null) or <<the question on display>>
InitialQuestions ==
    [allQuestions |-> <<>>, currentQuestionIndex |-> 0, currentQuestion |-> <<>>,
     answerHidden |-> TRUE]

\* Questions.getDailyQuestionIndex at time t with n questions
getDailyQuestionIndex(t, n) == Remainder((t - EpochStart) \div MsPerDay, n)

\* Questions.displayQuestion (indices count from 0)
displayQuestion(q, index) ==
    IF index < 0 \/ index >= Len(q.allQuestions) THEN q
    ELSE [q EXCEPT !.currentQuestionIndex = index,
                   !.currentQuestion = <<q.allQuestions[index + 1]>>,
                   !.answerHidden = TRUE]

\* Questions.loadDailyQuestion at time t
loadDailyQuestion(q, t) ==
    IF Len(q.allQuestions) = 0 THEN q
    ELSE LET index == getDailyQuestionIndex(t, Len(q.allQuestions))
         IN  displayQuestion([q EXCEPT !.currentQuestionIndex = index], index)

\* navigateQuestion without the test of the new index
navigateQuestion_Unchecked(q, direction) ==
    LET newIndex == q.currentQuestionIndex + direction
    IN  [q EXCEPT !.currentQuestionIndex = newIndex,
                  !.currentQuestion = IF newIndex >= 0 /\ newIndex < Len(q.allQuestions)
                                      THEN <<q.allQuestions[newIndex + 1]>> ELSE <<>>,
                  !.answerHidden = TRUE]

\* Questions.navigateQuestion
navigateQuestion(q, direction) ==
    LET newIndex == q.currentQuestionIndex + direction IN
    IF newIndex >= 0 /\ newIndex < Len(q.allQuestions) THEN displayQuestion(q, newIndex)
    ELSE q

\* Questions.goToToday at time t
goToToday(q, t) == displayQuestion(q, getDailyQuestionIndex(t, Len(q.allQuestions)))

\* Questions.init with the configured questions at time t
QuestionsInit(questions, t) ==
    loadDailyQuestion([InitialQuestions EXCEPT !.allQuestions = questions], t)

\* the id of Questions.currentQuestion
currentQuestionId(q) == q.currentQuestion[1].id

\* ------------------------------------------------------------------------
\* Operations
\* ------------------------------------------------------------------------
\* the click and change listeners of the timer controls are attached
Attached == page \in {"controls", "ready"}

\* start button
Start ==
    /\ Attached
    /\ timer' = start(timer, now)
    /\ completes' = IF timer.isRunning THEN completes ELSE 0
    /\ lastOp' = IF timer.isRunning THEN lastOp ELSE "start"
    /\ UNCHANGED <<now, elapses, envVars, appVars, tabVars, countdown, localStorage, streakVars, durations, timerEvents, dispatched, runMs>>

\* pause button
Pause ==
    /\ Attached
    /\ timer' = pause(timer)
    /\ lastOp' = IF timer.isRunning THEN "pause" ELSE lastOp
    /\ UNCHANGED <<now, elapses, envVars, appVars, tabVars, countdown, localStorage, streakVars, durations, timerEvents, dispatched,
                   completes, runMs>>

\* reset button
Reset ==
    /\ Attached
    /\ timer' = reset(timer, durations)
    /\ runMs' = 0
    /\ lastOp' = IF timer' = timer THEN lastOp ELSE "reset"
    /\ UNCHANGED <<now, elapses, envVars, appVars, tabVars, countdown, localStorage, streakVars, durations, timerEvents, dispatched, completes>>

\* mode select
ChangeMode(mode) ==
    /\ Attached
    /\ timer' = changeMode(timer, durations, mode)
    /\ runMs' = 0
    /\ lastOp' = IF timer' = timer THEN lastOp ELSE "changeMode"
    /\ UNCHANGED <<now, elapses, envVars, appVars, tabVars, countdown, localStorage, streakVars, durations, timerEvents, dispatched, completes>>

\* the setInterval callback created by start()
Tick ==
    /\ timer.interval /= NoTime
    /\ now >= timer.interval
    /\ tick(TRUE)
    /\ UNCHANGED <<now, elapses, streakVars, durations, store, page, appVars, tabVars, countdown>>

\* a visibilitychange listener that ticks whether or not the timer runs
VisibilityChange_NoRunningCheck ==
    /\ page = "ready"
    /\ tick(FALSE)
    /\ UNCHANGED <<now, elapses, streakVars, durations, store, page, appVars, tabVars, countdown>>

\* the visibilitychange listener, on the tab becoming visible
VisibilityChange ==
    /\ page = "ready"
    /\ IF timer.isRunning
       THEN tick(FALSE)
       ELSE UNCHANGED <<timer, localStorage, timerEvents, dispatched, completes, runMs, lastOp, errors>>
    /\ UNCHANGED <<now, elapses, streakVars, durations, store, page, appVars, tabVars, countdown>>

\* Timer.applySettings with the parsed values of the two inputs
ApplySettings(workMinutes, breakMinutes) ==
    /\ Attached
    /\ IF workMinutes > 0 /\ breakMinutes > 0
       THEN /\ durations' = setDurationsValue(workMinutes, breakMinutes)
            /\ timer' = reset(timer, durations')
            /\ runMs' = 0
            /\ lastOp' = IF timer' = timer /\ durations' = durations
                         THEN lastOp ELSE "setDurations"
       ELSE UNCHANGED <<durations, timer, runMs, lastOp>>
    /\ UNCHANGED <<now, elapses, envVars, appVars, tabVars, countdown, localStorage, streakVars, timerEvents, dispatched, completes>>

\* App.init in a freshly loaded page: Streak.init, Timer.init,
\* Timer.setDurations when the configuration has timerDurations,
\* Questions.init, checkPersonalMessages.  An
\* exception in Streak.checkStreak ends the initialisation before Timer.init;
\* one in Timer.loadTimerData ends it after the timer controls are attached
\* and before the durations are configured and the visibility listener added
AppInit(cfg, messages, questions) ==
    LET streakThrows == getStreakData(localStorage, now) = Null
        timerThrows == getTimerData(localStorage) = Null
        initialised == ~streakThrows /\ ~timerThrows
        configured == initialised /\ cfg /= <<>>
    IN  /\ StreakInit
        /\ question' = IF initialised THEN QuestionsInit(questions, now)
                       ELSE InitialQuestions
        /\ banner' = IF initialised
                     THEN checkPersonalMessages(messages, localStorage,
                                                streakData'[1].currentStreak, now,
                                                InitialBanner)
                     ELSE InitialBanner
        /\ durations' = IF configured THEN setDurationsValue(cfg[1], cfg[2])
                        ELSE InitialDurations
        /\ timer' = IF configured THEN reset(InitialTimer, durations') ELSE InitialTimer
        /\ completes' = 0
        /\ runMs' = 0
        /\ lastOp' = "load"
        /\ page' = IF streakThrows THEN "failed"
                   ELSE IF timerThrows THEN "controls" ELSE "ready"
        /\ errors' = IF streakThrows THEN errors \cup {"Streak.checkStreak"}
                     ELSE IF timerThrows THEN errors \cup {"Timer.loadTimerData"}
                     ELSE errors
        /\ UNCHANGED <<now, elapses, timerEvents, dispatched, store, tabVars, countdown>>

\* a page load with the default messages and questions (none)
PageLoad(cfg) == AppInit(cfg, NoMessages, NoQuestions)

\* the close button of the personal message banner
ClosePersonalMessage ==
    /\ page = "ready"
    /\ ~banner.hidden
    /\ localStorage' = IF banner.messageId /= ""
                       THEN dismissMessage(localStorage, banner.messageId)
                       ELSE localStorage
    /\ banner' = [banner EXCEPT !.hidden = TRUE]
    /\ UNCHANGED <<now, elapses, streakVars, timerVars, envVars, question, tabVars, countdown>>

\* the show-answer button of the displayed question
ShowAnswer ==
    /\ page = "ready"
    /\ question.allQuestions /= <<>>
    /\ question.answerHidden
    /\ question' = [question EXCEPT !.answerHidden = FALSE]
    /\ localStorage' = markQuestionAnswered(localStorage, currentQuestionId(question), now)
    /\ UNCHANGED <<now, elapses, streakVars, timerVars, envVars, banner, tabVars, countdown>>

\* the hide-answer button
HideAnswer ==
    /\ page = "ready"
    /\ ~question.answerHidden
    /\ question' = [question EXCEPT !.answerHidden = TRUE]
    /\ UNCHANGED <<now, elapses, localStorage, streakVars, timerVars, envVars, banner, tabVars, countdown>>

\* Streak.resetAll called in the loaded page
ResetAll ==
    /\ page = "ready"
    /\ resetAll
    /\ UNCHANGED <<now, elapses, timerVars, envVars, appVars, tabVars, countdown>>

\* the wall clock advances by d ms
Elapse(d) ==
    /\ now' = now + d
    /\ elapses' = elapses + 1
    /\ runMs' = IF timer.isRunning THEN runMs + d ELSE runMs
    /\ UNCHANGED <<localStorage, streakVars, timer, durations, timerEvents, dispatched, completes, lastOp,
                   envVars, appVars, tabVars, countdown>>

ElapseDays ==
    \E d \in DayJumps : toDateString(now + d) <= MaxDay /\ Elapse(d)

ElapseMs ==
    \E d \in TimerJumps : page /= "none" /\ elapses < MaxElapse /\ Elapse(d)

Load == \E cfg \in Configs : PageLoad(cfg)

Init ==
    /\ now = 0
    /\ elapses = 0
    /\ localStorage = [k \in KEYS |-> <<>>]
    /\ streakData = <<>>
    /\ streakEvents = <<>>
    /\ lastBranch = "unset"
    /\ visitDays = {}
    /\ reconciledDay = NoTime
    /\ timer = InitialTimer
    /\ durations = InitialDurations
    /\ timerEvents = <<>>
    /\ completes = 0
    /\ runMs = 0
    /\ lastOp = "init"
    /\ dispatched = <<>>
    /\ store = "ok"
    /\ page = "none"
    /\ errors = {}
    /\ banner = InitialBanner
    /\ question = InitialQuestions
    /\ tabs = [tab \in Tabs |-> [pc |-> "idle", data |-> DefaultTimerData]]
    /\ sessionsDone = 0
    /\ staleWrites = 0
    /\ countdown = InitialCountdown

\* the streak tracker across page loads and days
Next ==
    \/ Load
    \/ ResetAll
    \/ ElapseDays

Spec == Init /\ [][Next]_vars

\* the timer within and across page loads
TimerNext ==
    \/ Load
    \/ Start
    \/ Pause
    \/ Reset
    \/ \E mode \in Modes : ChangeMode(mode)
    \/ Tick
    \/ VisibilityChange
    \/ \E f \in FormInputs : ApplySettings(f[1], f[2])
    \/ ElapseMs

TimerSpec == Init /\ [][TimerNext]_vars

\* ------------------------------------------------------------------------
\* Properties of the streak tracker
\* ------------------------------------------------------------------------
\* the record Streak.init loads in the current state
Loaded == getStreakData(localStorage, now)

\* the number of consecutive days, ending with the latest one, that are all in S
RunLength(S) ==
    IF S = {} THEN 0
    ELSE LET m == CHOOSE x \in S : \A y \in S : y <= x
         IN  Cardinality({k \in 1..(m + 1) : \A j \in 0..(k - 1) : (m - j) \in S})

\* C1: after any sequence of page loads from a fresh record, currentStreak is
\* the number of consecutive calendar days, ending with the day of the latest
\* visit, on each of which a visit occurred.
C1_StreakCountsConsecutiveDays ==
    streakData /= <<>> => streakData[1].currentStreak = RunLength(visitDays)

\* C2: when floor(|now - lastVisit| / 86400000) = 1, reconcile increments
\* currentStreak and totalDays by exactly 1, sets lastVisit to now and
\* longestStreak to max(old longestStreak, new currentStreak).
C2_IncrementAtDistanceOne ==
    [][(Load /\ Loaded.lastVisit /= NoTime /\ getDaysBetween(Loaded.lastVisit, now) = 1)
        => /\ streakData'[1].currentStreak = Loaded.currentStreak + 1
           /\ streakData'[1].totalDays = Loaded.totalDays + 1
           /\ streakData'[1].lastVisit = now
           /\ streakData'[1].longestStreak =
                  Max(Loaded.longestStreak, Loaded.currentStreak + 1)]_vars

\* C3: when floor(|now - lastVisit| / 86400000) > 1, reconcile sets
\* currentStreak to 1, leaves longestStreak unchanged, increments totalDays by
\* exactly 1 and sets lastVisit to now.
C3_ResetAtDistanceAboveOne ==
    [][(Load /\ Loaded.lastVisit /= NoTime /\ getDaysBetween(Loaded.lastVisit, now) > 1)
        => /\ streakData'[1].currentStreak = 1
           /\ streakData'[1].longestStreak = Loaded.longestStreak
           /\ streakData'[1].totalDays = Loaded.totalDays + 1
           /\ streakData'[1].lastVisit = now]_vars

\* C4: for a record whose lastVisit is absent, reconcile yields
\* currentStreak = 1, totalDays = 1, longestStreak = max(1, old longestStreak)
\* and lastVisit = now, and the stored record is that record.
C4_StartOnFirstVisit ==
    [][(Load /\ Loaded.lastVisit = NoTime)
        => /\ streakData'[1].currentStreak = 1
           /\ streakData'[1].totalDays = 1
           /\ streakData'[1].longestStreak = Max(1, Loaded.longestStreak)
           /\ streakData'[1].lastVisit = now
           /\ streakData'[1].startDate = Loaded.startDate
           /\ localStorage'[STREAK_DATA] = streakData']_vars

\* C4 witness: a first visit has been reconciled and persisted
C4_Witness ==
    /\ lastBranch = "start"
    /\ streakData /= <<>>
    /\ streakData[1].lastVisit = now
    /\ localStorage[STREAK_DATA] = streakData

\* C5: a reconcile on a calendar day on which reconcile already ran changes
\* neither the in-memory nor the stored streak record.
C5_SameDayIdempotent ==
    [][(Load /\ reconciledDay = toDateString(now))
        => /\ streakData' = streakData
           /\ localStorage'[STREAK_DATA] = localStorage[STREAK_DATA]]_vars

\* C5 witness: a second reconcile ran on the day of the visit it found recorded,
\* later in that day
C5_Witness ==
    /\ lastBranch = "today"
    /\ reconciledDay = toDateString(now)
    /\ streakData[1].lastVisit < now
    /\ streakData[1].currentStreak >= 2

\* C6: a reconcile dispatches exactly one streakMilestone event, carrying the
\* new value, when it changes currentStreak to a value in {3,7,14,30,50,100},
\* and none otherwise (same-day repeat, reset to 1, any other value); no other
\* operation dispatches one.
C6_MilestoneOncePerTransition ==
    [][/\ Load =>
            streakEvents' =
                IF /\ streakData'[1].currentStreak /= Loaded.currentStreak
                   /\ streakData'[1].currentStreak \in {3, 7, 14, 30, 50, 100}
                THEN Append(streakEvents, streakData'[1].currentStreak)
                ELSE streakEvents
       /\ ~Load => streakEvents' = streakEvents]_vars

\* C6 witness: the streak reached 3, one event was dispatched for it, and a later
\* same-day reconcile found it
C6_Witness ==
    /\ streakEvents = <<3>>
    /\ streakData[1].currentStreak = 3
    /\ lastBranch = "today"

\* C7: longestStreak >= currentStreak >= 0, in memory and in the store.
C7_LongestBoundsCurrent ==
    /\ streakData /= <<>> =>
           /\ streakData[1].longestStreak >= streakData[1].currentStreak
           /\ streakData[1].currentStreak >= 0
    /\ localStorage[STREAK_DATA] /= <<>> =>
           /\ localStorage[STREAK_DATA][1].longestStreak
                  >= localStorage[STREAK_DATA][1].currentStreak
           /\ localStorage[STREAK_DATA][1].currentStreak >= 0

\* C7 witness: a reset left currentStreak below longestStreak
C7_Witness ==
    /\ lastBranch = "reset"
    /\ streakData[1].currentStreak = 1
    /\ streakData[1].longestStreak >= 2

\* C8: when reconcile finds lastVisit present and not on today's date, the
\* distance it computes is at least 1 and increment or reset is applied.
C8_DistanceAtLeastOne ==
    [][(Load /\ Loaded.lastVisit /= NoTime /\ ~isToday(Loaded.lastVisit, now))
        => /\ daysSinceLastVisit(Loaded, now) >= 1
           /\ lastBranch' \in {"increment", "reset"}
           /\ streakData'[1].lastVisit = now]_vars

\* ------------------------------------------------------------------------
\* Properties of the timer
\* ------------------------------------------------------------------------
\* C9: while Running, the timeRemaining a tick computes is the armed duration
\* minus the time spent Running since it was armed (rounded up to seconds):
\* paused time is excluded and running time is counted in full, however the
\* ticks were delivered.
C9_RemainingReflectsRunningTime ==
    timer.isRunning =>
        timeLeft(timer, now) =
            Max(0, CeilDiv(durations[timer.mode] * MsPerSecond - runMs, MsPerSecond))

\* C10: a tick that finds no time left calls complete() once and leaves the
\* timer not Running, and complete() is called at most once between two
\* start() calls that enter Running.
C10_CompleteOncePerCountdown ==
    /\ [](completes <= 1)
    /\ [][((Tick \/ VisibilityChange) /\ timer.isRunning /\ timeLeft(timer, now) = 0)
            => /\ completes' = completes + 1
               /\ ~timer'.isRunning
               /\ timer'.interval = NoTime
               /\ Len(timerEvents') = Len(timerEvents) + 1]_vars

\* C10 witness: a countdown has completed and the timer waits in the other mode
C10_Witness ==
    /\ completes = 1
    /\ ~timer.isRunning
    /\ timer.mode = "break"
    /\ timerEvents /= <<>>

\* work and break sessions over several days
ElapseSession ==
    \E d \in SessionJumps :
        page /= "none" /\ elapses < MaxSessionElapse /\ Elapse(d)

SessionNext ==
    \/ Load
    \/ Start
    \/ \E mode \in Modes : ChangeMode(mode)
    \/ Tick
    \/ VisibilityChange
    \/ ElapseSession

SessionSpec == Init /\ [][SessionNext]_vars

\* the timer under any timerDurations the configuration file may hold
LoadAny == \E cfg \in AnyConfigs : PageLoad(cfg)

ElapseConfig ==
    \E d \in ConfigJumps :
        page /= "none" /\ elapses < MaxConfigElapse /\ Elapse(d)

ConfigNext ==
    \/ LoadAny
    \/ (Len(timerEvents) < MaxConfigCompletions /\ Start)
    \/ Pause
    \/ Reset
    \/ \E mode \in Modes : ChangeMode(mode)
    \/ Tick
    \/ VisibilityChange
    \/ \E f \in FormInputs : ApplySettings(f[1], f[2])
    \/ ElapseConfig

ConfigSpec == Init /\ [][ConfigNext]_vars

\* a tick of either kind runs on a Running timer
TickRuns == (Tick \/ VisibilityChange) /\ timer.isRunning

\* whole seconds, rounded up, from now to the end time; 0 when it has passed
SecondsToEnd ==
    IF timer.endTime - now <= 0 THEN 0
    ELSE (timer.endTime - now + MsPerSecond - 1) \div MsPerSecond

\* C11: every tick while Running sets timeRemaining to
\* max(0, ceil((endTime - now) / 1000)), whatever ticks came before, and calls
\* complete() iff that value is 0.
C11_TickRecomputesFromEndTime ==
    [][TickRuns =>
        IF SecondsToEnd = 0
        THEN /\ completes' = completes + 1
             /\ Len(timerEvents') = Len(timerEvents) + 1
        ELSE /\ timer'.timeRemaining = SecondsToEnd
             /\ timer'.isRunning
             /\ timer'.endTime = timer.endTime
             /\ completes' = completes
             /\ timerEvents' = timerEvents]_vars

\* C11 witness: a tick ran half a second late and rounded the remaining time up
C11_Witness ==
    /\ lastOp = "tick"
    /\ timer.isRunning
    /\ (timer.endTime - now) % MsPerSecond = 500
    /\ timer.timeRemaining * MsPerSecond = timer.endTime - now + 500

\* the timer statistics a reader finds in the store
Stats == IF localStorage[TIMER_DATA] = <<>>
         THEN [sessionsToday |-> 0, totalSessions |-> 0, totalMinutes |-> 0,
               lastSession |-> NoTime]
         ELSE localStorage[TIMER_DATA][1]

\* C12: completing a work session increments totalSessions by 1, sets
\* sessionsToday to old sessionsToday + 1 if lastSession is today and to 1
\* otherwise, sets lastSession to today and adds durations.work / 60 to
\* totalMinutes (25 with durations work = 1500, break = 300).
C12_WorkCompletionUpdatesStats ==
    [][(TickRuns /\ SecondsToEnd = 0 /\ timer.mode = "work") =>
        /\ Stats'.totalSessions = Stats.totalSessions + 1
        /\ Stats'.sessionsToday =
               IF Stats.lastSession = now \div MsPerDay
               THEN Stats.sessionsToday + 1 ELSE 1
        /\ Stats'.lastSession = now \div MsPerDay
        /\ Stats'.totalMinutes * 60 = Stats.totalMinutes * 60 + durations.work
        /\ (durations.work = 1500 /\ durations.break = 300)
               => Stats'.totalMinutes = Stats.totalMinutes + 25]_vars

\* C12 witness: a 25-minute work session completed on a later day than the
\* session before it, which restarted the daily count
C12_Witness ==
    /\ lastOp = "complete"
    /\ durations.work = 1500
    /\ Stats.totalSessions = 2
    /\ Stats.sessionsToday = 1
    /\ Stats.lastSession = now \div MsPerDay
    /\ Stats.totalMinutes \in {26, 50}

\* C13: complete() in either mode leaves the timer Idle (not running, not
\* paused, no end time, no pending tick) in the other mode with timeRemaining
\* the other mode's duration; after it neither a tick nor the clock changes
\* the timer, and only start() makes it Running.
C13_CompleteLeavesIdleInOtherMode ==
    /\ [][(TickRuns /\ SecondsToEnd = 0) =>
            /\ ~timer'.isRunning
            /\ ~timer'.isPaused
            /\ timer'.endTime = NoTime
            /\ timer'.interval = NoTime
            /\ timer'.mode = (IF timer.mode = "work" THEN "break" ELSE "work")
            /\ timer'.timeRemaining = durations[timer'.mode]
            /\ durations' = durations]_vars
    /\ [][(lastOp = "complete" /\ (Tick \/ VisibilityChange \/ now' /= now))
            => timer' = timer]_vars
    /\ [][(~timer.isRunning /\ timer'.isRunning) => Start]_vars

\* C13 witness: a break has completed after a work session, the timer waits
\* Idle in work mode with the work duration while the clock has moved on
C13_Witness ==
    /\ lastOp = "complete"
    /\ timerEvents = <<"work", "break">>
    /\ timer.mode = "work"
    /\ ~timer.isRunning
    /\ ~timer.isPaused
    /\ timer.timeRemaining = durations.work
    /\ elapses = 3

\* C14: start() from Idle or Paused makes the timer Running with
\* endTime = now + timeRemaining * 1000 and a periodic tick due one period
\* later, and leaves timeRemaining and mode unchanged; start() while Running
\* changes nothing (no new end time, no new periodic callback).
C14_StartAnchorsEndTime ==
    [][Start =>
        IF timer.isRunning
        THEN timer' = timer
        ELSE /\ timer'.isRunning
             /\ ~timer'.isPaused
             /\ timer'.endTime = now + timer.timeRemaining * 1000
             /\ timer'.interval = now + 1000
             /\ timer'.timeRemaining = timer.timeRemaining
             /\ timer'.mode = timer.mode
             /\ durations' = durations]_vars

\* C14 witness: start() resumed a paused countdown in break mode, part of which
\* had elapsed, and anchored a new end time
C14_Witness ==
    /\ lastOp = "start"
    /\ timer.isRunning
    /\ timer.mode = "break"
    /\ timer.timeRemaining < durations[timer.mode]
    /\ timer.startTime < now
    /\ timer.endTime = now + timer.timeRemaining * 1000

\* C15: pause() from Running makes the timer Paused, cancels the periodic
\* tick and leaves timeRemaining, mode and the end time as they were; while
\* Paused, no advance of the clock and no tick changes the timer; pause()
\* when not Running changes nothing.
C15_PauseFreezesRemaining ==
    /\ [][Pause =>
            IF timer.isRunning
            THEN /\ ~timer'.isRunning
                 /\ timer'.isPaused
                 /\ timer'.interval = NoTime
                 /\ timer'.timeRemaining = timer.timeRemaining
                 /\ timer'.mode = timer.mode
                 /\ localStorage' = localStorage
            ELSE timer' = timer]_vars
    /\ [][(timer.isPaused /\ (Tick \/ VisibilityChange \/ now' /= now))
            => timer' = timer]_vars
    /\ [][(timer.isPaused /\ timer'.isPaused)
            => timer'.timeRemaining = timer.timeRemaining]_vars

\* C15 witness: a countdown paused after a tick, a minute of wall clock ago
C15_Witness ==
    /\ lastOp = "pause"
    /\ timer.isPaused
    /\ ~timer.isRunning
    /\ timer.interval = NoTime
    /\ timer.timeRemaining < durations[timer.mode]
    /\ now >= timer.endTime - timer.timeRemaining * 1000 + 60000

\* the timer is Idle: not running, not paused, nothing anchored or pending
Idle(s) ==
    /\ ~s.isRunning
    /\ ~s.isPaused
    /\ s.endTime = NoTime
    /\ s.startTime = NoTime
    /\ s.interval = NoTime

\* C16: reset() from any state leaves the timer Idle with the end time
\* cleared and timeRemaining = durations[current mode], and changes neither
\* mode, durations nor the stored timer statistics.
C16_ResetRearmsCurrentMode ==
    [][Reset =>
        /\ Idle(timer')
        /\ timer'.timeRemaining = durations[timer.mode]
        /\ timer'.mode = timer.mode
        /\ durations' = durations
        /\ localStorage' = localStorage
        /\ timerEvents' = timerEvents]_vars

\* C16 witness: reset() ended a break countdown that had been started
C16_Witness ==
    /\ lastOp = "reset"
    /\ Idle(timer)
    /\ timer.mode = "break"
    /\ timer.timeRemaining = durations.break
    /\ durations.break /= durations.work

\* C17: changeMode(newMode) from any state leaves the timer Idle in newMode
\* with the end time cleared and timeRemaining = durations[newMode], and does
\* not touch the stored timer statistics nor dispatch a completion.
C17_ChangeModeRearmsNewMode ==
    [][\A mode \in {"work", "break"} :
        ChangeMode(mode) =>
            /\ Idle(timer')
            /\ timer'.mode = mode
            /\ timer'.timeRemaining = durations[mode]
            /\ durations' = durations
            /\ localStorage' = localStorage
            /\ timerEvents' = timerEvents]_vars

\* C17 witness: the mode was changed to break with no session ever counted
C17_Witness ==
    /\ lastOp = "changeMode"
    /\ Idle(timer)
    /\ timer.mode = "break"
    /\ timer.timeRemaining = durations.break
    /\ durations.break /= durations.work
    /\ now > 0
    /\ Stats.totalSessions = 0
    /\ timerEvents = <<>>

\* C18: setDurations(workMinutes, breakMinutes), called by the settings form
\* or at page load, sets durations to workMinutes * 60 and breakMinutes * 60
\* seconds and leaves the timer Idle with timeRemaining the current mode's new
\* duration (setDurations(50, 10) in work mode: 3000).
C18_SetDurationsResets ==
    /\ [][\A f \in FormInputs :
            (ApplySettings(f[1], f[2]) /\ f[1] > 0 /\ f[2] > 0) =>
                /\ durations' = [work |-> f[1] * 60, break |-> f[2] * 60]
                /\ Idle(timer')
                /\ timer'.mode = timer.mode
                /\ timer'.timeRemaining =
                       (IF timer.mode = "work" THEN f[1] * 60 ELSE f[2] * 60)
                /\ (f = <<50, 10>> /\ timer.mode = "work")
                       => timer'.timeRemaining = 3000]_vars
    /\ [][\A cfg \in Configs \ {<<>>} :
            PageLoad(cfg) =>
                /\ durations' = [work |-> cfg[1] * 60, break |-> cfg[2] * 60]
                /\ Idle(timer')
                /\ timer'.mode = "work"
                /\ timer'.timeRemaining = cfg[1] * 60]_vars

\* C18 witness: setDurations(50, 10) was applied in work mode
C18_Witness ==
    /\ lastOp = "setDurations"
    /\ durations = [work |-> 3000, break |-> 600]
    /\ Idle(timer)
    /\ timer.mode = "work"
    /\ timer.timeRemaining = 3000

\* C19: durations.work and durations.break are positive in every reachable
\* state, whichever caller invoked setDurations.
C19_DurationsPositive ==
    /\ durations.work > 0
    /\ durations.break > 0

\* C20: isRunning and isPaused are never both true, and both are false
\* exactly when the timer is Idle: initially and after a page load, reset,
\* changeMode, setDurations or complete, with nothing anchored or pending.
C20_RunningPausedExclusive ==
    /\ ~(timer.isRunning /\ timer.isPaused)
    /\ (~timer.isRunning /\ ~timer.isPaused)
           <=> lastOp \in {"init", "load", "reset", "changeMode", "setDurations",
                           "complete"}
    /\ (~timer.isRunning /\ ~timer.isPaused) <=> Idle(timer)
    /\ timer.isRunning <=> lastOp \in {"start", "tick"}
    /\ timer.isPaused <=> lastOp = "pause"

\* C20 witness: after a completed work session new durations reset the timer,
\* both flags false
C20_Witness ==
    /\ lastOp = "setDurations"
    /\ ~timer.isRunning
    /\ ~timer.isPaused
    /\ timer.mode = "break"
    /\ timerEvents = <<"work">>
    /\ durations.break = 600

\* C21: completing a break session leaves the stored timer statistics
\* unchanged; totalMinutes changes only when a work session completes, never
\* through pause, reset, changeMode or setDurations.
C21_BreakCompletionKeepsStats ==
    /\ [][(TickRuns /\ SecondsToEnd = 0 /\ timer.mode = "break")
            => /\ localStorage'[TIMER_DATA] = localStorage[TIMER_DATA]
               /\ Stats' = Stats]_vars
    /\ [][(Stats'.totalMinutes /= Stats.totalMinutes)
            => (TickRuns /\ SecondsToEnd = 0 /\ timer.mode = "work")]_vars
    /\ [][(Pause \/ Reset \/ (\E mode \in Modes : ChangeMode(mode))
             \/ (\E f \in FormInputs : ApplySettings(f[1], f[2])))
            => Stats' = Stats]_vars

\* C21 witness: a break completed after one counted work session, and the
\* statistics still show that one session
C21_Witness ==
    /\ lastOp = "complete"
    /\ timerEvents = <<"work", "break">>
    /\ Stats.totalSessions = 1
    /\ Stats.sessionsToday = 1
    /\ Stats.totalMinutes = 1

\* C22: in every state in which the stored lastSession date differs from
\* today's date, the sessionsToday value a reader of the timer statistics
\* gets (getTimerData, getStats, the counter loadTimerData shows at page load)
\* is 0.
C22_SessionsTodayZeroOnNewDay ==
    getTimerData(localStorage).lastSession /= getTodayString(now)
        => getTimerData(localStorage).sessionsToday = 0

\* the item of a key is replaced, outside the page, by a malformed text
Tamper(key, item) ==
    /\ localStorage[key] /= item
    /\ localStorage' = [localStorage EXCEPT ![key] = item]
    /\ UNCHANGED <<now, elapses, streakVars, timerVars, envVars, appVars, tabVars, countdown>>

ElapseCorrupt ==
    \E d \in CorruptJumps :
        page /= "none" /\ elapses < MaxCorruptElapse /\ Elapse(d)

\* page loads and timer sessions over a store with malformed items
CorruptNext ==
    \/ Load
    \/ \E key \in {STREAK_DATA, TIMER_DATA}, item \in MalformedItems : Tamper(key, item)
    \/ Start
    \/ \E mode \in Modes : ChangeMode(mode)
    \/ Tick
    \/ VisibilityChange
    \/ ElapseCorrupt

CorruptSpec == Init /\ [][CorruptNext]_vars

\* C23: for every malformed stored payload (unparseable text, or a parseable
\* value that is not a record, such as null), reading a domain record yields
\* the default as if the key were absent: a page load reconciles a first
\* visit, a completed work session counts from zero, and no exception leaves
\* streak reconcile or timer completion.
C23_MalformedReadsAsAbsent ==
    /\ [](errors = {})
    /\ [][(Load /\ localStorage[STREAK_DATA] \in MalformedItems)
            => /\ lastBranch' = "start"
               /\ streakData' = <<startStreak(DefaultStreakData(now), now)>>]_vars
    /\ [][(TickRuns /\ SecondsToEnd = 0 /\ timer.mode = "work"
             /\ localStorage[TIMER_DATA] \in MalformedItems)
            => /\ localStorage'[TIMER_DATA] /= <<>>
               /\ localStorage'[TIMER_DATA][1].totalSessions = 1
               /\ timerEvents' = Append(timerEvents, "work")]_vars

\* the underlying store starts failing
SetStore(mode) ==
    /\ store = "ok"
    /\ mode /= "ok"
    /\ store' = mode
    /\ UNCHANGED <<now, elapses, localStorage, streakVars, timerVars, page, errors, appVars, tabVars, countdown>>

\* a page load with personal messages and daily questions configured
LoadFull == AppInit(<<1, 1>>, PersonalMessages, DailyQuestions)

ElapseQuota ==
    \E d \in QuotaJumps :
        page /= "none" /\ elapses < MaxQuotaElapse /\ Elapse(d)

\* the page over a store that may reject writes or be unavailable
QuotaNext ==
    \/ \E mode \in StoreModes : SetStore(mode)
    \/ (Len(streakEvents) < MaxQuotaMilestones /\ LoadFull)
    \/ Start
    \/ Pause
    \/ Reset
    \/ Tick
    \/ ClosePersonalMessage
    \/ ShowAnswer
    \/ ElapseQuota

QuotaSpec == Init /\ [][QuotaNext]_vars

ValidTimer(s) ==
    \/ Idle(s)
    \/ s.isRunning /\ ~s.isPaused /\ s.interval /= NoTime /\ s.endTime /= NoTime
    \/ s.isPaused /\ ~s.isRunning /\ s.interval = NoTime

\* C25: while the store is unavailable (every read and write throws) no
\* operation fails: every read returns its default record, a page load is
\* reconciled as a first visit, and start, pause, tick, complete and reset
\* finish and leave the timer Idle, Running or Paused.
C25_UnavailableStoreDegrades ==
    /\ [](store = "down" =>
            /\ getStreakData(localStorage, now) = DefaultStreakData(now)
            /\ getTimerData(localStorage) = DefaultTimerData
            /\ getDismissedMessages(localStorage) = <<>>
            /\ getAnsweredQuestions(localStorage) = <<>>)
    /\ [](ValidTimer(timer))
    /\ [][store = "down" =>
            /\ errors' = errors
            /\ localStorage' = localStorage
            /\ LoadFull =>
                  /\ page' = "ready"
                  /\ lastBranch' = "start"
                  /\ streakData' = <<[currentStreak |-> 1, longestStreak |-> 1,
                                      totalDays |-> 1, lastVisit |-> now,
                                      startDate |-> now]>>
                  /\ Idle(timer')
            /\ (Start /\ ~timer.isRunning) => timer'.isRunning
            /\ (Pause /\ timer.isRunning) => timer'.isPaused
            /\ Reset => Idle(timer')
            /\ (TickRuns /\ SecondsToEnd = 0) =>
                  /\ Idle(timer')
                  /\ timer'.mode /= timer.mode
                  /\ timerEvents' = Append(timerEvents, timer.mode)]_vars

\* C25 witness: with the store unavailable a page load was reconciled as a
\* first visit although a streak record is stored, and a work session ran to
\* completion without a stored statistic
C25_Witness ==
    /\ store = "down"
    /\ localStorage[STREAK_DATA] /= <<>>
    /\ localStorage[TIMER_DATA] = <<>>
    /\ lastBranch = "start"
    /\ timerEvents = <<"work">>
    /\ Idle(timer)
    /\ timer.mode = "break"
    /\ errors = {}

\* C26: each timer completion dispatches exactly one timerComplete event
\* inside complete(), whose mode is the mode that just finished and, for a
\* work session, after the session statistics have been updated; start,
\* pause, reset, changeMode, setDurations and a tick that finds time left
\* dispatch none.
C26_OneEventPerCompletion ==
    /\ [][(TickRuns /\ SecondsToEnd = 0) =>
            /\ timerEvents' = Append(timerEvents, timer.mode)
            /\ timer'.mode /= timer.mode
            /\ completes' = completes + 1
            /\ timer.mode = "work" =>
                  /\ dispatched' /= <<>>
                  /\ dispatched'[1].totalSessions = Stats.totalSessions + 1
                  /\ dispatched'[1].totalMinutes * 60 = Stats.totalMinutes * 60 + durations.work
                  /\ dispatched'[1].lastSession = now \div MsPerDay
            /\ timer.mode = "break" =>
                  dispatched' = localStorage[TIMER_DATA]]_vars
    /\ [][(timerEvents' /= timerEvents) => (TickRuns /\ SecondsToEnd = 0)]_vars
    /\ [][(Start \/ Pause \/ Reset \/ (\E mode \in Modes : ChangeMode(mode))
             \/ (\E f \in FormInputs : ApplySettings(f[1], f[2]))
             \/ (TickRuns /\ SecondsToEnd > 0))
            => timerEvents' = timerEvents]_vars

\* C26 witness: a second work session completed and the listeners of its
\* event found both sessions counted
C26_Witness ==
    /\ lastOp = "complete"
    /\ timerEvents = <<"work", "work">>
    /\ timer.mode = "break"
    /\ dispatched /= <<>>
    /\ dispatched[1].totalSessions = 2
    /\ dispatched[1].totalMinutes = 2

\* C27: under every interleaving of the periodic tick, the visibility tick
\* and start/pause/reset/changeMode/setDurations, a tick never changes
\* timeRemaining nor calls complete() while the timer is not Running: pause,
\* reset and changeMode cancel the pending periodic callback, and cancelling
\* when none is pending changes nothing.
C27_NoTickEffectUnlessRunning ==
    /\ [](~timer.isRunning => timer.interval = NoTime)
    /\ [][(~timer.isRunning /\ (Tick \/ VisibilityChange)) =>
            /\ timer' = timer
            /\ completes' = completes
            /\ timerEvents' = timerEvents
            /\ localStorage' = localStorage]_vars
    /\ [][(Pause \/ Reset \/ (\E mode \in Modes : ChangeMode(mode)))
            => timer'.interval = NoTime /\ ~timer'.isRunning]_vars
    /\ [][(Pause /\ timer.interval = NoTime) => timer' = timer]_vars
    /\ [][((Reset \/ (\E mode \in Modes : ChangeMode(mode))) /\ timer.interval = NoTime)
            => /\ timer'.isRunning = timer.isRunning
               /\ errors' = errors]_vars

\* C27 witness: the countdown was paused and the clock has passed its end
\* time, with the time remaining as it was and nothing completed
C27_Witness ==
    /\ lastOp = "pause"
    /\ timer.isPaused
    /\ timer.endTime /= NoTime
    /\ now >= timer.endTime
    /\ timer.timeRemaining > 0
    /\ completes = 0
    /\ timerEvents = <<>>

\* ------------------------------------------------------------------------
\* Two tabs on the same store: each tab runs its handlers to completion, and
\* the getItem and setItem calls of different tabs interleave
\* ------------------------------------------------------------------------
\* complete() of a work session in a tab: incrementSession reads the record
TabReadSession(tab) ==
    /\ tabs[tab].pc = "idle"
    /\ sessionsDone + Cardinality({t \in Tabs : tabs[t].pc /= "idle"}) < MaxTabSessions
    /\ tabs' = [tabs EXCEPT ![tab] = [pc |-> "counting", data |-> getTimerData(localStorage)]]
    /\ UNCHANGED <<now, elapses, localStorage, streakVars, timerVars, envVars, appVars,
                   sessionsDone, staleWrites, countdown>>

\* incrementSession writes the record it counted the session in
TabWriteSession(tab) ==
    /\ tabs[tab].pc = "counting"
    /\ localStorage' = setTimerData(localStorage, sessionCounted(tabs[tab].data, now))
    /\ staleWrites' = IF getTimerData(localStorage) /= tabs[tab].data
                      THEN staleWrites + 1 ELSE staleWrites
    /\ tabs' = [tabs EXCEPT ![tab].pc = "counted"]
    /\ UNCHANGED <<now, elapses, streakVars, timerVars, envVars, appVars, sessionsDone, countdown>>

\* addStudyTime reads the record
TabReadStudyTime(tab) ==
    /\ tabs[tab].pc = "counted"
    /\ tabs' = [tabs EXCEPT ![tab] = [pc |-> "adding", data |-> getTimerData(localStorage)]]
    /\ UNCHANGED <<now, elapses, localStorage, streakVars, timerVars, envVars, appVars,
                   sessionsDone, staleWrites, countdown>>

\* addStudyTime writes the record it added the minutes to
TabWriteStudyTime(tab) ==
    /\ tabs[tab].pc = "adding"
    /\ localStorage' = setTimerData(localStorage,
                                    studyTimeAdded(tabs[tab].data,
                                                   durations.work \div SecondsPerMinute))
    /\ staleWrites' = IF getTimerData(localStorage) /= tabs[tab].data
                      THEN staleWrites + 1 ELSE staleWrites
    /\ tabs' = [tabs EXCEPT ![tab].pc = "idle"]
    /\ sessionsDone' = sessionsDone + 1
    /\ UNCHANGED <<now, elapses, streakVars, timerVars, envVars, appVars, countdown>>

TabsNext ==
    \E tab \in Tabs :
        \/ TabReadSession(tab)
        \/ TabWriteSession(tab)
        \/ TabReadStudyTime(tab)
        \/ TabWriteStudyTime(tab)

TabsSpec == Init /\ [][TabsNext]_vars

TabsIdle == \A tab \in Tabs : tabs[tab].pc = "idle"

WorkMinutes == durations.work \div SecondsPerMinute

\* C28: with two tabs on one store a lost update is reachable: once both tabs
\* have finished their work sessions, the stored totals never exceed the
\* sessions completed, they equal them when no write was computed from a
\* replaced item, and they fall short of them when one was
C28_StaleWriteLosesUpdate ==
    TabsIdle =>
        /\ Stats.totalSessions <= sessionsDone
        /\ Stats.totalMinutes <= WorkMinutes * sessionsDone
        /\ staleWrites = 0 =>
               /\ Stats.totalSessions = sessionsDone
               /\ Stats.totalMinutes = WorkMinutes * sessionsDone
        /\ staleWrites > 0 =>
               \/ Stats.totalSessions < sessionsDone
               \/ Stats.totalMinutes < WorkMinutes * sessionsDone

\* both tabs completed a work session and totalSessions counts one of them
C28_Witness ==
    /\ TabsIdle
    /\ sessionsDone = 2
    /\ staleWrites > 0
    /\ Stats.totalSessions = 1

\* C29: isStreakAtRisk is true exactly when the last visit is on the calendar
\* day of now, and false when there is no last visit
C29_AtRiskIffVisitedToday ==
    streakData /= <<>> =>
        (isStreakAtRisk(streakData[1], now)
            <=> /\ streakData[1].lastVisit /= NoTime
                /\ toDateString(streakData[1].lastVisit) = toDateString(now))

\* ------------------------------------------------------------------------
\* Personal messages over several days: page loads with the configured
\* messages, the close button, streak resets
\* ------------------------------------------------------------------------
LoadMessages == AppInit(<<1, 1>>, PersonalMessages, NoQuestions)

ElapseMessage ==
    \E d \in MessageJumps : toDateString(now + d) <= MaxMessageDay /\ Elapse(d)

MessageNext ==
    \/ LoadMessages
    \/ ClosePersonalMessage
    \/ ResetAll
    \/ ElapseMessage

MessageSpec == Init /\ [][MessageNext]_vars

\* the ids recorded under the dismissed-messages key
DismissedIds(ls) ==
    IF ls[DISMISSED_MESSAGES] = <<>> THEN {}
    ELSE {ls[DISMISSED_MESSAGES][1][i] : i \in 1..Len(ls[DISMISSED_MESSAGES][1])}

\* the trigger condition of a message for the current streak at time t
TriggerHolds(message, streak, t) ==
    \/ message.trigger = "daysUntil" /\ getDaysUntil(t) = message.value
    \/ message.trigger = "streak" /\ streak = message.value
    \/ message.trigger = "date" /\ toDateString(t) = toDateString(message.value)

\* message i of the configuration was never dismissed and its trigger holds
Eligible(i, ls, streak, t) ==
    /\ messageId(PersonalMessages[i]) \notin DismissedIds(ls)
    /\ TriggerHolds(PersonalMessages[i], streak, t)

\* C30: a banner on display never carries a dismissed id, a recorded id stays
\* recorded, and a page load shows the first message of the configuration
\* that was never dismissed and whose trigger holds, when there is one
C30_DismissedNeverShownAgain ==
    /\ [](~banner.hidden => banner.messageId \notin DismissedIds(localStorage))
    /\ [][DismissedIds(localStorage) \subseteq DismissedIds(localStorage')]_vars
    /\ [][LoadMessages =>
            LET eligible == {i \in 1..Len(PersonalMessages) :
                                Eligible(i, localStorage', streakData'[1].currentStreak, now')}
            IN  /\ eligible /= {} =>
                    /\ ~banner'.hidden
                    /\ \E i \in eligible :
                           /\ banner'.messageId = messageId(PersonalMessages[i])
                           /\ \A j \in eligible : i <= j
                /\ eligible = {} => banner'.hidden]_vars

\* the first message is dismissed and its trigger holds, and the page shows
\* the next message whose trigger holds
C30_Witness ==
    /\ streakData /= <<>>
    /\ streakData[1].currentStreak = 1
    /\ "streak_1" \in DismissedIds(localStorage)
    /\ ~banner.hidden
    /\ banner.messageId = "date_0"

\* ------------------------------------------------------------------------
\* Daily questions over several days, in a time zone with daylight saving
\* time.  The clock counts the ms elapsed since EpochStart, the local midnight
\* of 2024-01-01
\* ------------------------------------------------------------------------
\* Questions.init with the configured questions
QuestionsLoad ==
    /\ question' = QuestionsInit(DailyQuestions, now)
    /\ UNCHANGED <<now, elapses, localStorage, streakVars, timerVars, envVars, banner,
                   tabVars, countdown>>

\* the previous and next buttons
NavigateQuestion(direction) ==
    /\ question.allQuestions /= <<>>
    /\ question' = navigateQuestion(question, direction)
    /\ UNCHANGED <<now, elapses, localStorage, streakVars, timerVars, envVars, banner,
                   tabVars, countdown>>

\* Questions.goToToday
GoToToday ==
    /\ question.allQuestions /= <<>>
    /\ question' = goToToday(question, now)
    /\ UNCHANGED <<now, elapses, localStorage, streakVars, timerVars, envVars, banner,
                   tabVars, countdown>>

ElapseQuestion ==
    \E d \in QuestionJumps :
        /\ (now + d) \div MsPerDay <= MaxQuestionDay
        /\ now' = now + d
        /\ UNCHANGED <<elapses, localStorage, streakVars, timerVars, envVars, appVars,
                       tabVars, countdown>>

QuestionInit ==
    /\ now = QuestionStart
    /\ elapses = 0
    /\ localStorage = [k \in KEYS |-> <<>>]
    /\ streakData = <<>>
    /\ streakEvents = <<>>
    /\ lastBranch = "unset"
    /\ visitDays = {}
    /\ reconciledDay = NoTime
    /\ timer = InitialTimer
    /\ durations = InitialDurations
    /\ timerEvents = <<>>
    /\ completes = 0
    /\ runMs = 0
    /\ lastOp = "init"
    /\ dispatched = <<>>
    /\ store = "ok"
    /\ page = "none"
    /\ errors = {}
    /\ banner = InitialBanner
    /\ question = InitialQuestions
    /\ tabs = [tab \in Tabs |-> [pc |-> "idle", data |-> DefaultTimerData]]
    /\ sessionsDone = 0
    /\ staleWrites = 0
    /\ countdown = InitialCountdown

QuestionNext ==
    \/ GoToToday
    \/ \E direction \in Directions : NavigateQuestion(direction)
    \/ QuestionsLoad
    \/ ElapseQuestion

QuestionSpec == QuestionInit /\ [][QuestionNext]_vars

\* daylight saving time begins at 02:00 of the day after EpochStart and moves
\* the local clock one hour ahead
DstStart == EpochStart + MsPerDay + 2 * MsPerHour

\* the local calendar day of instant t, counted from 2024-01-01
LocalDay(t) ==
    (IF t >= DstStart THEN t - EpochStart + MsPerHour ELSE t - EpochStart) \div MsPerDay

\* C31: the question loaded is the one of index (calendar days since
\* 2024-01-01) mod N, so that it lies in [0, N-1], is the same all day and
\* advances by one, cyclically, from one day to the next
C31_DailyIndexCyclesByDay ==
    [][QuestionsLoad =>
         question'.currentQuestionIndex = LocalDay(now) % Len(DailyQuestions)]_vars

\* ------------------------------------------------------------------------
\* The countdown to the test date
\* ------------------------------------------------------------------------
\* Countdown.init in a freshly loaded page
CountdownInit ==
    /\ countdown' = countdownInit(LsatDate, now)
    /\ UNCHANGED <<now, elapses, localStorage, streakVars, timerVars, envVars, appVars,
                   tabVars>>

\* the callback of the countdown's setInterval
CountdownTick ==
    /\ countdown.scheduled
    /\ countdown' = countdownUpdate(countdown, now)
    /\ UNCHANGED <<now, elapses, localStorage, streakVars, timerVars, envVars, appVars,
                   tabVars>>

ElapseCountdown ==
    \E d \in CountdownJumps : elapses < MaxCountdownElapse /\ Elapse(d)

CountdownNext ==
    \/ CountdownInit
    \/ CountdownTick
    \/ ElapseCountdown

CountdownSpec == Init /\ [][CountdownNext]_vars

\* C32: an update of the countdown at or after the target date, the one of
\* the initialisation included, leaves 00 in the four fields and no periodic
\* update scheduled
C32_CompletedCountdownStops ==
    [][(CountdownInit \/ CountdownTick) /\ now >= LsatDate =>
         /\ countdown'.days = "00"
         /\ countdown'.hours = "00"
         /\ countdown'.minutes = "00"
         /\ countdown'.seconds = "00"
         /\ ~countdown'.scheduled]_vars

\* C33: totalDays is the number of distinct calendar days with a page load
\* since the record was fresh
C33_TotalDaysCountsVisitDays ==
    streakData /= <<>> => streakData[1].totalDays = Cardinality(visitDays)

\* C34: a periodic tick callback is scheduled exactly while the timer is
\* Running: the number of live callbacks is 1 while Running and 0 otherwise,
\* a callback is created only by the start() that enters Running, and every
\* exit from Running leaves none
C34_IntervalScheduledIffRunning ==
    /\ [](timer.live = IF timer.isRunning THEN 1 ELSE 0)
    /\ [](timer.interval /= NoTime <=> timer.isRunning)
    /\ [][timer'.live > timer.live => Start /\ ~timer.isRunning /\ timer'.isRunning]_vars
    /\ [][timer.isRunning /\ ~timer'.isRunning =>
            timer'.live = 0 /\ timer'.interval = NoTime]_vars

\* the timer has been Running for some time on the one callback start() created
C34_Witness ==
    /\ timer.isRunning
    /\ timer.live = 1
    /\ lastOp = "start"
    /\ runMs > 0

\* C35: a countdown never completes early: when timerComplete is dispatched
\* for a mode, the timer has been Running for at least durations[mode]
\* seconds since timeRemaining was last armed
C35_NeverCompletesEarly ==
    [][Len(timerEvents') = Len(timerEvents) + 1 =>
         /\ timer.isRunning
         /\ runMs >= durations[timer.mode] * MsPerSecond]_vars

\* a work session of one minute has completed later than one minute after
\* the page load, the clock having advanced while paused or between ticks
C35_Witness ==
    /\ timerEvents = <<"work">>
    /\ completes = 1
    /\ durations.work = SecondsPerMinute
    /\ now > SecondsPerMinute * MsPerSecond

\* ------------------------------------------------------------------------
\* Countdowns left to run: after the page load the timer is started and
\* neither paused, reset, switched nor reconfigured.  The clock advances
\* while a countdown runs, until the end time and the next tick are reached
\* ------------------------------------------------------------------------
LoadLive == page = "none" /\ PageLoad(<<1, 1>>)

StartLive == Len(timerEvents) < MaxLiveCompletions /\ Start

ElapseLive ==
    \E d \in LiveJumps :
        /\ timer.isRunning
        /\ now < Max(timer.endTime, timer.interval)
        /\ now' = now + d
        /\ runMs' = runMs + d
        /\ UNCHANGED <<elapses, localStorage, streakVars, timer, durations, timerEvents,
                       dispatched, completes, lastOp, envVars, appVars, tabVars, countdown>>

LiveNext ==
    \/ LoadLive
    \/ StartLive
    \/ Tick
    \/ VisibilityChange
    \/ ElapseLive

\* the clock advances and the periodic callback is delivered
LiveSpec ==
    Init /\ [][LiveNext]_vars /\ WF_vars(ElapseLive) /\ WF_vars(Tick)

\* C36: a timer that is started and left alone completes: from Running in a
\* mode, timerComplete is dispatched and the timer is Idle in the other mode
C36_StartedTimerCompletes ==
    \A k \in 0..(MaxLiveCompletions - 1) :
        /\ (timer.isRunning /\ timer.mode = "work" /\ Len(timerEvents) = k)
              ~> (Idle(timer) /\ timer.mode = "break" /\ Len(timerEvents) = k + 1)
        /\ (timer.isRunning /\ timer.mode = "break" /\ Len(timerEvents) = k)
              ~> (Idle(timer) /\ timer.mode = "work" /\ Len(timerEvents) = k + 1)

\* a work countdown and the break countdown after it have both run to the end
C36_Witness ==
    /\ timerEvents = <<"work", "break">>
    /\ Idle(timer)
    /\ timer.mode = "work"

\* C37: whenever the timer is neither running nor paused, the end time is
\* absent and timeRemaining is the duration of the mode; reset, changeMode,
\* setDurations and complete each leave the timer neither running nor paused
C37_IdleIsArmed ==
    /\ []((~timer.isRunning /\ ~timer.isPaused) =>
              /\ timer.endTime = NoTime
              /\ timer.timeRemaining = durations[timer.mode])
    /\ [][(\/ Reset
           \/ \E mode \in Modes : ChangeMode(mode)
           \/ \E f \in FormInputs : f[1] > 0 /\ f[2] > 0 /\ ApplySettings(f[1], f[2])
           \/ Len(timerEvents') > Len(timerEvents))
          => ~timer'.isRunning /\ ~timer'.isPaused]_vars

\* a paused countdown has been reset under durations set in the settings form
C37_Witness ==
    /\ ~timer.isRunning
    /\ ~timer.isPaused
    /\ lastOp = "reset"
    /\ durations.work = 2 * SecondsPerMinute
    /\ timer.timeRemaining = durations[timer.mode]

\* C38: in every state 0 <= timeRemaining <= durations[mode], and
\* timeRemaining increases only when it is armed again: by reset, changeMode,
\* setDurations, a completion or a page load
C38_RemainingWithinDuration ==
    /\ [](0 <= timer.timeRemaining /\ timer.timeRemaining <= durations[timer.mode])
    /\ [][timer'.timeRemaining > timer.timeRemaining =>
            lastOp' \in {"reset", "changeMode", "setDurations", "complete", "load"}]_vars

\* C39: in every state reached from empty statistics by work and break
\* completions, 0 <= sessionsToday <= totalSessions, and totalSessions and
\* totalMinutes never decrease
C39_StatsMonotone ==
    /\ [](0 <= Stats.sessionsToday /\ Stats.sessionsToday <= Stats.totalSessions)
    /\ [][/\ Stats'.totalSessions >= Stats.totalSessions
          /\ Stats'.totalMinutes >= Stats.totalMinutes]_vars

\* today's index is within the list (the clock is not before the epoch)
TodayInRange ==
    /\ getDailyQuestionIndex(now, Len(DailyQuestions)) >= 0
    /\ getDailyQuestionIndex(now, Len(DailyQuestions)) < Len(DailyQuestions)

\* the index and the question on display agree and are within the list
InRange(q) ==
    /\ q.currentQuestionIndex \in 0..(Len(q.allQuestions) - 1)
    /\ q.currentQuestion = <<q.allQuestions[q.currentQuestionIndex + 1]>>

\* C40: from an index within [0, N-1], with today's index in range, previous,
\* next and goToToday leave the index within [0, N-1] and on the question on
\* display; previous at index 0 and next at index N-1 change neither
C40_IndexStaysInRange ==
    /\ [][((GoToToday \/ \E direction \in Directions : NavigateQuestion(direction))
            /\ TodayInRange /\ InRange(question)) => InRange(question')]_vars
    /\ [][(NavigateQuestion(-1) /\ InRange(question) /\ question.currentQuestionIndex = 0)
            => question' = question]_vars
    /\ [][(NavigateQuestion(1) /\ InRange(question)
            /\ question.currentQuestionIndex = Len(question.allQuestions) - 1)
            => question' = question]_vars

\* the last question is on display after next was pressed at the first one
C40_Witness ==
    /\ question.allQuestions /= <<>>
    /\ InRange(question)
    /\ question.currentQuestionIndex = Len(question.allQuestions) - 1
    /\ getDailyQuestionIndex(now, Len(DailyQuestions)) = 0

====
